---------------------------- MODULE Spec2Model ----------------------------
(***************************************************************************)
(* Model of the sqct batch-run scripts:                                    *)
(*   run/run_sqct_one_by_one.py      the Dispatcher (range planner, ledger *)
(*                                   of started IDs, qsub submission) and  *)
(*                                   the PBS job script it generates (the  *)
(*                                   worker, which appends completed IDs); *)
(*   run/archive_completed_results.py the reconciler and the archiver.     *)
(* Files are modelled by their content: a tracking file is a sequence of   *)
(* characters, an ID is the character sequence the f-string produces.      *)
(***************************************************************************)
EXTENDS Integers, Sequences, FiniteSets, TLC

(* ------------------------------ bounds -------------------------------- *)
\* m of the configuration (n = 2^m); the script sets 21
M == 5
\* k values per job; the script sets 512
NUM_K_PER_JOB == 2
\* submission cap of one run; the script sets 128
MAX_JOBS == 2
\* number of Dispatcher processes that may be started
NumRuns == 2
\* number of environment failures (I/O errors, missing files, qsub failures)
\* in one behaviour
MaxFaults == 2

(* --------------------------- configuration ---------------------------- *)
K_STEP == 2

RECURSIVE Pow2(_)
Pow2(e) == IF e <= 0 THEN 1 ELSE 2 * Pow2(e - 1)

N == Pow2(M)
MAX_K == Pow2(M - 1)

Min(a, b) == IF a < b THEN a ELSE b

(* ------------------------------ strings ------------------------------- *)
Digits == <<"0", "1", "2", "3", "4", "5", "6", "7", "8", "9">>

\* str(n) of a non-negative integer: its decimal digits
RECURSIVE ToStr(_)
ToStr(n) == IF n < 10 THEN <<Digits[n + 1]>>
            ELSE ToStr(n \div 10) \o <<Digits[(n % 10) + 1]>>

\* f"{n}_{k}"
IdStr(n, k) == ToStr(n) \o <<"_">> \o ToStr(k)

(* ------------------------------ ledger -------------------------------- *)
NoFile == [exists |-> FALSE, data |-> <<>>]

\* Path.touch(exist_ok=True): creates an empty file, keeps an existing one
Touch(file) == [exists |-> TRUE, data |-> file.data]

\* the non-empty lines of a text: `line.strip() for line in f if line.strip()`
RECURSIVE SplitLines(_, _, _)
SplitLines(s, i, cur) ==
    IF i > Len(s)
    THEN (IF cur = <<>> THEN {} ELSE {cur})
    ELSE IF s[i] = "\n"
         THEN (IF cur = <<>> THEN {} ELSE {cur}) \cup SplitLines(s, i + 1, <<>>)
         ELSE SplitLines(s, i + 1, Append(cur, s[i]))

\* a reader that keeps each line's newline: set(f.readlines())
load_tracked_ids_nostrip(file) ==
    IF ~file.exists THEN {} ELSE {l \o <<"\n">> : l \in SplitLines(file.data, 1, <<>>)}

load_tracked_ids(file) ==
    IF ~file.exists THEN {} ELSE SplitLines(file.data, 1, <<>>)

\* the characters append_ids_to_file writes: one f"{id_str}\n" per ID
RECURSIVE IdLines(_)
IdLines(ids) == IF ids = <<>> THEN <<>>
                ELSE Head(ids) \o <<"\n">> \o IdLines(Tail(ids))

\* open(filepath, 'a') and the writes, of which the first j characters reach
\* the file (j < Len: an IOError, which the function prints and swallows)
append_ids_to_file(file, ids, j) ==
    [exists |-> TRUE, data |-> file.data \o SubSeq(IdLines(ids), 1, j)]


(* --------------------------- file names ------------------------------- *)
UniPrefix == <<"u", "n", "i", "_">>
TxtSuffix == <<".", "t", "x", "t">>

\* f"uni_{N}_{kmin}_{kmax_actual}.txt"
output_filename(n, kmin, kmax) ==
    UniPrefix \o ToStr(n) \o <<"_">> \o ToStr(kmin) \o <<"_">> \o ToStr(kmax)
        \o TxtSuffix

\* the fields of the config file the Dispatcher writes for a range
config_content(n, kmin, kmax) ==
    [out |-> output_filename(n, kmin, kmax), n |-> n, k1 |-> kmin, k2 |-> kmax,
     kstep |-> K_STEP]

\* the PBS script: the config it runs and the IDs it echoes on exit code 0
generate_pbs_script(n, kmin, kmax_actual, ids_in_range_list) ==
    [config |-> config_content(n, kmin, kmax_actual),
     out |-> output_filename(n, kmin, kmax_actual),
     kmin |-> kmin, kmax |-> kmax_actual, ids |-> ids_in_range_list]

(* ---------------------------- Dispatcher ------------------------------ *)
VARIABLES
    started,      \* started_ids.txt
    completed,    \* completed_ids.txt
    copied,       \* files the preparation copied into the working directory
    configs,      \* configs/: the config files written
    jobs,         \* what qsub accepted: [run, script]
    marked,       \* history: the ranges a run appended to started_ids.txt
    disp,         \* the Dispatcher processes
    faults,       \* environment failures so far
    part,         \* the range loop run alone, for a drawn configuration
    recon,        \* the reconciler's check of one artifact name, run alone
    workers,      \* the PBS jobs the scheduler runs
    outdir,       \* out/: the range artifacts present
    titles,       \* out/: the *.title files present
    archive,      \* out/archive_ranges.tar
    arch,         \* the consolidation processes
    enum,         \* the enumeration of one range's IDs, run alone
    task          \* the local batch runner (task_run.py) on one config file

dispVars == <<started, completed, copied, configs, jobs, marked, disp>>
\* what the Dispatcher leaves alone
archVars == <<workers, outdir, titles, archive, arch>>
notDisp == <<part, recon, archVars, enum, task>>

\* the environment may fail once more
MayFail == faults < MaxFaults
\* the outcomes of an operation that succeeds (TRUE) or fails (FALSE)
OkOrFail == IF MayFail THEN {TRUE, FALSE} ELSE {TRUE}
\* an environment outcome: ok = TRUE is the success, anything else a failure
Outcome(ok) == faults' = IF ok THEN faults ELSE faults + 1

Runs == 1 .. NumRuns

\* job_k_range_size = NUM_K_PER_JOB * K_STEP
job_k_range_size(numK) == numK * K_STEP

\* a clipping that is missing: kmax_actual = kmin + job_k_range_size
kmax_actual_unclipped(kmin, size, maxK) == kmin + size

\* kmax_actual = min(kmin + job_k_range_size, MAX_K)
kmax_actual_of(kmin, size, maxK) == Min(kmin + size, maxK)

\* range(1, MAX_K, job_k_range_size) is exhausted at kmin
range_exhausted(kmin, maxK) == kmin >= maxK

\* the inner loop over range(kmin, kmax_actual, K_STEP): every ID visited is
\* stored; the loop breaks at the first ID found in started_ids_set
RECURSIVE ScanRange(_, _, _, _, _)
ScanRange(n, k, kmax, set, ids) ==
    IF k >= kmax THEN [skip |-> FALSE, ids |-> ids]
    ELSE LET id == IdStr(n, k)
         IN  IF id \in set
             THEN [skip |-> TRUE, ids |-> Append(ids, id)]
             ELSE ScanRange(n, k + K_STEP, kmax, set, Append(ids, id))

\* history kept with a process: `earlier` is what had happened when it started
\* (the runs killed, the ranges whose submission had failed), `failed` the
\* ranges whose submission failed in this run, `last_error` its last error
DispInitRec ==
    [pc |-> "idle", started_ids_set |-> {}, ledger_at_start |-> <<>>, kmin |-> 1,
     kmax_actual |-> 1, ids_in_range |-> <<>>, submitted_count |-> 0,
     skipped_ranges_count |-> 0, error_count |-> 0,
     earlier |-> [killed |-> {}, failed |-> {}], failed |-> {},
     last_error |-> "none"]

\* the runs killed so far and the ranges whose submission has failed so far
KilledRuns == {r \in Runs : disp[r].pc = "killed"}
FailedRanges == UNION {disp[r].failed : r \in Runs}

\* the process has ended: its variables are gone, what it did is kept
stopped(rec, how) ==
    [DispInitRec EXCEPT !.pc = how, !.ledger_at_start = rec.ledger_at_start,
                        !.earlier = rec.earlier, !.failed = rec.failed,
                        !.last_error = rec.last_error]

DispInit ==
    /\ started = NoFile
    /\ completed = NoFile
    /\ copied = {}
    /\ configs = {}
    /\ jobs = {}
    /\ marked = {}
    /\ disp = [r \in Runs |-> DispInitRec]
    /\ faults = 0

\* lines 119-171: touch the tracking files, validate, copy the BFS layer files
\* (present in ../build) and the executable (exit 1 when its source is missing)
Prepare(r) ==
    /\ disp[r].pc = "idle"
    /\ completed' = Touch(completed)
    /\ started' = Touch(started)
    /\ LET d == [disp[r] EXCEPT !.earlier = [killed |-> KilledRuns,
                                             failed |-> FailedRanges]]
       IN  IF NUM_K_PER_JOB <= 0
           THEN /\ disp' = [disp EXCEPT ![r] = [d EXCEPT !.pc = "exit1"]]
                /\ UNCHANGED <<copied, faults>>
           ELSE \E exeSrc \in OkOrFail :
                  /\ copied' = copied \cup {"bfs-layer"}
                                      \cup (IF exeSrc THEN {"sqct"} ELSE {})
                  /\ disp' = [disp EXCEPT ![r] =
                         [d EXCEPT !.pc = IF exeSrc THEN "load" ELSE "exit1"]]
                  /\ Outcome(exeSrc)
    /\ UNCHANGED <<configs, jobs, marked>>
    /\ UNCHANGED notDisp

\* lines 173-196: load the started IDs (exit 1 on a read error), reset counters
Load(r) ==
    /\ disp[r].pc = "load"
    /\ \E readOk \in OkOrFail :
         /\ disp' = [disp EXCEPT ![r] =
                    IF readOk
                    THEN [@ EXCEPT !.pc = "loop",
                                   !.started_ids_set = load_tracked_ids(started),
                                   !.ledger_at_start = started.data,
                                   !.kmin = 1]
                    ELSE [@ EXCEPT !.pc = "exit1"]]
         /\ Outcome(readOk)
    /\ UNCHANGED <<started, completed, copied, configs, jobs, marked>>
    /\ UNCHANGED notDisp

\* the loop's `continue`: the next kmin of range(1, MAX_K, job_k_range_size)
NextRange(d) ==
    [d EXCEPT !.pc = "loop", !.kmin = d.kmin + job_k_range_size(NUM_K_PER_JOB)]

\* lines 198-230: loop head, cap, and the whole-range skip
PlanRange(r) ==
    /\ disp[r].pc = "loop"
    /\ LET d == disp[r]
           kmax == kmax_actual_of(d.kmin, job_k_range_size(NUM_K_PER_JOB), MAX_K)
           scan == ScanRange(N, d.kmin, kmax, d.started_ids_set, <<>>)
       IN  disp' = [disp EXCEPT ![r] =
                IF range_exhausted(d.kmin, MAX_K) THEN [d EXCEPT !.pc = "done"]
                ELSE IF d.submitted_count >= MAX_JOBS THEN [d EXCEPT !.pc = "done"]
                ELSE IF scan.skip \/ scan.ids = <<>>
                THEN [NextRange(d) EXCEPT
                        !.skipped_ranges_count = d.skipped_ranges_count + 1]
                ELSE [d EXCEPT !.pc = "mark", !.kmax_actual = kmax,
                               !.ids_in_range = scan.ids]]
    /\ UNCHANGED <<started, completed, copied, configs, jobs, marked, faults>>
    /\ UNCHANGED notDisp

\* how much of `data` a write leaves in the file: all of it, or on an I/O error
\* any proper prefix
WrittenLengths(data) == IF MayFail THEN 0 .. Len(data) ELSE {Len(data)}

\* lines 232-237: append the IDs to started_ids.txt (an IOError is printed and
\* swallowed by append_ids_to_file), then update the in-memory set
MarkStarted(r) ==
    /\ disp[r].pc = "mark"
    /\ LET d == disp[r]
       IN  /\ \E j \in WrittenLengths(IdLines(d.ids_in_range)) :
                /\ started' = append_ids_to_file(started, d.ids_in_range, j)
                /\ Outcome(j = Len(IdLines(d.ids_in_range)))
           /\ marked' = marked \cup {[run |-> r, kmin |-> d.kmin, kmax |-> d.kmax_actual]}
           /\ disp' = [disp EXCEPT ![r] =
                  [d EXCEPT !.pc = "config",
                            !.started_ids_set =
                                d.started_ids_set \cup
                                {d.ids_in_range[i] : i \in 1 .. Len(d.ids_in_range)}]]
    /\ UNCHANGED <<completed, copied, configs, jobs>>
    /\ UNCHANGED notDisp

\* lines 239-276: write the config file; on IOError count it and continue
WriteConfig(r) ==
    /\ disp[r].pc = "config"
    /\ LET d == disp[r]
       IN  \E writeOk \in OkOrFail :
             /\ Outcome(writeOk)
             /\ IF writeOk
                THEN /\ configs' = configs \cup {config_content(N, d.kmin, d.kmax_actual)}
                     /\ disp' = [disp EXCEPT ![r].pc = "qsub"]
                ELSE /\ configs' = configs
                     /\ disp' = [disp EXCEPT ![r] =
                            [NextRange(d) EXCEPT !.error_count = d.error_count + 1,
                                                 !.last_error = "config"]]
    /\ UNCHANGED <<started, completed, copied, jobs, marked>>
    /\ UNCHANGED notDisp

\* qsub accepts the job, is not installed (FileNotFoundError), returns non-zero
\* (CalledProcessError), or fails otherwise (Exception)
QsubOutcomes == IF MayFail THEN {"ok", "notfound", "rejected", "other"} ELSE {"ok"}

\* a handler of submission errors that gives up at the first one
stops_loop_on_any(res) == res # "ok"

\* lines 296-301: only the FileNotFoundError handler ends with `break`
stops_loop(res) == res = "notfound"

\* lines 278-319: pipe the script to qsub
Qsub(r) ==
    /\ disp[r].pc = "qsub"
    /\ LET d == disp[r]
           script == generate_pbs_script(N, d.kmin, d.kmax_actual, d.ids_in_range)
           err == [d EXCEPT !.error_count = d.error_count + 1,
                            !.failed = d.failed \cup {<<d.kmin, d.kmax_actual>>}]
       IN  \E res \in QsubOutcomes :
             /\ Outcome(res = "ok")
             /\ jobs' = IF res = "ok" THEN jobs \cup {[run |-> r, script |-> script]}
                        ELSE jobs
             /\ disp' = [disp EXCEPT ![r] =
                    IF res = "ok"
                    THEN [NextRange(d) EXCEPT !.submitted_count = d.submitted_count + 1]
                    ELSE IF stops_loop(res)
                    THEN [err EXCEPT !.pc = "done", !.last_error = res]
                    ELSE [NextRange(err) EXCEPT !.last_error = res]]
    /\ UNCHANGED <<started, completed, copied, configs, marked>>
    /\ UNCHANGED notDisp

\* the process is killed between two steps
Kill(r) ==
    /\ disp[r].pc \in {"load", "loop", "mark", "config", "qsub"}
    /\ MayFail
    /\ Outcome(FALSE)
    /\ disp' = [disp EXCEPT ![r] = stopped(@, "killed")]
    /\ UNCHANGED <<started, completed, copied, configs, jobs, marked>>
    /\ UNCHANGED notDisp

\* lines 47-52: the process is killed inside append_ids_to_file, when some but
\* not all of the characters have reached started_ids.txt
KillInAppend(r) ==
    /\ disp[r].pc = "mark"
    /\ MayFail
    /\ Outcome(FALSE)
    /\ LET d == disp[r]
       IN  /\ \E j \in 1 .. Len(IdLines(d.ids_in_range)) - 1 :
                started' = append_ids_to_file(started, d.ids_in_range, j)
           /\ marked' = marked \cup {[run |-> r, kmin |-> d.kmin, kmax |-> d.kmax_actual]}
           /\ disp' = [disp EXCEPT ![r] = stopped(d, "killed")]
    /\ UNCHANGED <<completed, copied, configs, jobs>>
    /\ UNCHANGED notDisp

DispNext ==
    \E r \in Runs :
        \/ Prepare(r)
        \/ Load(r)
        \/ PlanRange(r)
        \/ MarkStarted(r)
        \/ WriteConfig(r)
        \/ Qsub(r)
        \/ Kill(r)
        \/ KillInAppend(r)

(* --------------------- the range loop, run alone ---------------------- *)
\* largest m and largest NUM_K_PER_JOB drawn
MaxM == 6
MaxNumK == 4

PartIdle == part = [M |-> 0, numK |-> 0, kmin |-> 1, ranges |-> <<>>, done |-> TRUE]

PartInit ==
    part \in {[M |-> m, numK |-> w, kmin |-> 1, ranges |-> <<>>, done |-> FALSE] :
                m \in 1 .. MaxM, w \in 1 .. MaxNumK}

\* lines 198, 205-206: one iteration of `for kmin in range(1, MAX_K,
\* job_k_range_size)` with its kmax_actual, for n = 2^M, MAX_K = 2^(M-1)
PartitionStep ==
    /\ ~part.done
    /\ LET maxK == Pow2(part.M - 1)
           size == job_k_range_size(part.numK)
       IN  part' = IF range_exhausted(part.kmin, maxK)
                   THEN [part EXCEPT !.done = TRUE]
                   ELSE [part EXCEPT
                           !.ranges = Append(@, <<part.kmin,
                                        kmax_actual_of(part.kmin, size, maxK)>>),
                           !.kmin = part.kmin + size]
    /\ UNCHANGED <<dispVars, faults, recon, archVars, enum, task>>

(* ---------------------------- Reconciler ------------------------------ *)
\* filename.removeprefix(p)
removeprefix(str, p) ==
    IF Len(str) >= Len(p) /\ SubSeq(str, 1, Len(p)) = p
    THEN SubSeq(str, Len(p) + 1, Len(str)) ELSE str

\* filename.removesuffix(p)
removesuffix(str, p) ==
    IF Len(str) >= Len(p) /\ SubSeq(str, Len(str) - Len(p) + 1, Len(str)) = p
    THEN SubSeq(str, 1, Len(str) - Len(p)) ELSE str

\* core_part.split('_'): the parts between the separators, empty ones kept
RECURSIVE SplitUnderscore(_, _, _, _)
SplitUnderscore(str, i, cur, acc) ==
    IF i > Len(str) THEN Append(acc, cur)
    ELSE IF str[i] = "_"
         THEN SplitUnderscore(str, i + 1, <<>>, Append(acc, cur))
         ELSE SplitUnderscore(str, i + 1, Append(cur, str[i]), acc)

IsDigit(c) == \E d \in 1 .. 10 : Digits[d] = c
DigitVal(c) == CHOOSE d \in 0 .. 9 : Digits[d + 1] = c

\* int(s) raises ValueError unless s is a non-empty digit string
IntOk(str) == str # <<>> /\ \A i \in 1 .. Len(str) : IsDigit(str[i])

RECURSIVE IntOf(_)
IntOf(str) == IF str = <<>> THEN 0
              ELSE 10 * IntOf(SubSeq(str, 1, Len(str) - 1)) + DigitVal(str[Len(str)])

\* lines 76-90: n, kmin, kmax from uni_N_KMIN_KMAX.txt, or a ValueError
parse_range_filename(filename) ==
    LET core_part == removesuffix(removeprefix(filename, UniPrefix), TxtSuffix)
        parts == SplitUnderscore(core_part, 1, <<>>, <<>>)
    IN  IF Len(parts) # 3 \/ \E i \in 1 .. Len(parts) : ~IntOk(parts[i])
        THEN [ok |-> FALSE, n |-> 0, kmin |-> 0, kmax |-> 0]
        ELSE [ok |-> TRUE, n |-> IntOf(parts[1]), kmin |-> IntOf(parts[2]),
              kmax |-> IntOf(parts[3])]

\* a loop that also visits kmax: range(kmin, kmax + 1, K_STEP)
RECURSIVE MissingLoop_inclusive(_, _, _, _, _)
MissingLoop_inclusive(n, k, kmax, completed_set, missing_ids) ==
    IF k > kmax THEN missing_ids
    ELSE MissingLoop_inclusive(n, k + K_STEP, kmax, completed_set,
                     IF IdStr(n, k) \notin completed_set
                     THEN Append(missing_ids, IdStr(n, k)) ELSE missing_ids)

\* the loop of check_range_completion over range(kmin, kmax, K_STEP)
RECURSIVE MissingLoop(_, _, _, _, _)
MissingLoop(n, k, kmax, completed_set, missing_ids) ==
    IF k >= kmax THEN missing_ids
    ELSE MissingLoop(n, k + K_STEP, kmax, completed_set,
                     IF IdStr(n, k) \notin completed_set
                     THEN Append(missing_ids, IdStr(n, k)) ELSE missing_ids)

check_range_completion(n, kmin, kmax, completed_set) ==
    IF kmin >= kmax THEN [complete |-> FALSE, missing |-> <<>>]
    ELSE LET missing_ids == MissingLoop(n, kmin, kmax, completed_set, <<>>)
         IN  [complete |-> missing_ids = <<>>, missing |-> missing_ids]

\* a scan that archives every artifact whose name parses to a non-empty range
classify_unchecked(filename, completed_set) ==
    LET p == parse_range_filename(filename)
    IN  IF ~p.ok THEN [decision |-> "unparsable", missing |-> <<>>]
        ELSE IF p.kmin < p.kmax THEN [decision |-> "archive", missing |-> <<>>]
        ELSE [decision |-> "empty", missing |-> <<>>]

\* lines 92-105: what the scan does with one artifact name
classify(filename, completed_set) ==
    LET p == parse_range_filename(filename)
        res == check_range_completion(p.n, p.kmin, p.kmax, completed_set)
    IN  IF ~p.ok THEN [decision |-> "unparsable", missing |-> <<>>]
        ELSE IF res.complete THEN [decision |-> "archive", missing |-> <<>>]
        ELSE IF res.missing = <<>> /\ p.kmin >= p.kmax
        THEN [decision |-> "empty", missing |-> <<>>]
        ELSE [decision |-> "incomplete", missing |-> res.missing]

\* the n of the artifact names drawn, and the largest k in them
ReconN == 1024
MaxReconK == 9

ReconIds == {IdStr(ReconN, k) : k \in {x \in 1 .. MaxReconK : x % 2 = 1 \/ x = 2}}

ReconNames ==
    {output_filename(ReconN, a, b) : a \in 1 .. MaxReconK, b \in 1 .. MaxReconK}
    \cup {output_filename(ReconN, 1, MaxReconK) \o TxtSuffix,
          UniPrefix \o ToStr(ReconN) \o <<"_">> \o ToStr(1) \o TxtSuffix,
          UniPrefix \o ToStr(ReconN) \o <<"_", "_">> \o ToStr(MaxReconK) \o TxtSuffix}

ReconIdle ==
    recon = [pc |-> "off", name |-> <<>>, completed_set |-> {}, removed |-> <<>>,
             before |-> [decision |-> "none", missing |-> <<>>],
             result |-> [decision |-> "none", missing |-> <<>>]]

ReconInit ==
    recon \in {[pc |-> "scan", name |-> nm, completed_set |-> cs, removed |-> <<>>,
                before |-> [decision |-> "none", missing |-> <<>>],
                result |-> [decision |-> "none", missing |-> <<>>]] :
                  nm \in ReconNames, cs \in SUBSET ReconIds}

\* lines 72-105 for one file of the glob
ReconCheck ==
    /\ recon.pc = "scan"
    /\ recon' = [recon EXCEPT !.pc = "checked",
                              !.result = classify(recon.name, recon.completed_set)]
    /\ UNCHANGED <<dispVars, faults, part, archVars, enum, task>>

\* one ID disappears from the Completed set and the scan is run again
ReconRemoveId ==
    /\ recon.pc = "checked"
    /\ recon.removed = <<>>
    /\ \E id \in recon.completed_set :
         recon' = [recon EXCEPT !.pc = "scan", !.removed = <<id>>,
                                !.completed_set = @ \ {id},
                                !.before = recon.result]
    /\ UNCHANGED <<dispVars, faults, part, archVars, enum, task>>

ReconNext == ReconCheck \/ ReconRemoveId

(* ------------------- the enumeration of a range's IDs ------------------ *)
\* largest kmin and kmax drawn
MaxEnumK == 8

\* a count that rounds down: (kmax - kmin) // K_STEP
num_ids_expected_floor(kmin, kmax) == (kmax - kmin) \div K_STEP

\* line 98: num_ids_expected = (kmax - kmin + K_STEP - 1) // K_STEP
num_ids_expected(kmin, kmax) == (kmax - kmin + K_STEP - 1) \div K_STEP

EnumOff ==
    [pc |-> "off", kmin |-> 0, kmax |-> 0, ids_in_range |-> <<>>,
     ids_to_check_count |-> 0, checked |-> <<>>, all_complete |-> FALSE,
     num_ids_expected |-> 0]

EnumIdle == enum = EnumOff

EnumInit ==
    enum \in {[EnumOff EXCEPT !.pc = "drawn", !.kmin = a, !.kmax = b] :
                a \in 0 .. MaxEnumK, b \in 0 .. MaxEnumK}

\* Dispatcher, lines 209-216: the inner loop when no ID is started yet
EnumDispatcher ==
    /\ enum.pc = "drawn"
    /\ LET scan == ScanRange(N, enum.kmin, enum.kmax, {}, <<>>)
       IN  enum' = [enum EXCEPT !.pc = "listed", !.ids_in_range = scan.ids,
                                !.ids_to_check_count = Len(scan.ids)]
    /\ UNCHANGED <<dispVars, faults, part, recon, archVars, task>>

\* reconciler, lines 42-50 with no ID completed: every ID the loop checks is
\* in the list of missing IDs
EnumReconcilerNone ==
    /\ enum.pc = "listed"
    /\ enum' = [enum EXCEPT !.pc = "checked",
                  !.checked = check_range_completion(N, enum.kmin, enum.kmax,
                                                     {}).missing]
    /\ UNCHANGED <<dispVars, faults, part, recon, archVars, task>>

\* reconciler, lines 93-99 when the IDs the Dispatcher listed are completed
EnumReconcilerAll ==
    /\ enum.pc = "checked"
    /\ LET res == check_range_completion(N, enum.kmin, enum.kmax,
                       {enum.ids_in_range[i] : i \in 1 .. Len(enum.ids_in_range)})
       IN  enum' = [enum EXCEPT !.pc = "done", !.all_complete = res.complete,
                       !.num_ids_expected =
                           IF res.complete
                           THEN num_ids_expected(enum.kmin, enum.kmax) ELSE 0]
    /\ UNCHANGED <<dispVars, faults, part, recon, archVars, task>>

EnumNext == EnumDispatcher \/ EnumReconcilerNone \/ EnumReconcilerAll

(* ---------------------- the local batch runner ------------------------ *)
\* largest number of lines before the header line in a config drawn
MaxLead == 3

\* '#Filename with approximation results'
HeaderPrefix ==
    <<"#", "F", "i", "l", "e", "n", "a", "m", "e", " ", "w", "i", "t", "h",
      " ", "a", "p", "p", "r", "o", "x", "i", "m", "a", "t", "i", "o", "n",
      " ", "r", "e", "s", "u", "l", "t", "s">>

\* the lines task_gen.py writes before the header (the first one shortened),
\* and a further comment line for configs with more lines
LeadLine(i) ==
    IF i = 1 THEN
        <<"#", " ", "R", "e", "q", "u", "e", "s", "t", " ", "a", "p", "p", "r",
          "o", "x", "i", "m", "a", "t", "i", "o", "n", " ", "o", "f", " ", "R",
          "_", "z", " ", "r", "o", "t", "a", "t", "i", "o", "n", "s">>
    ELSE IF i = 2 THEN <<"U", "N", "I", "F", "O", "R", "M", "\n">>
    ELSE <<"#", "\n">>

\* f"batch_out/uni{n}_{batch+1}.txt": the output file the config declares
declared_output(n, batch) ==
    <<"b", "a", "t", "c", "h", "_", "o", "u", "t", "/", "u", "n", "i">>
        \o ToStr(n) \o <<"_">> \o ToStr(batch + 1) \o TxtSuffix

\* the config file: `lead` lines, the header line, the line with the path
config_lines(lead, has_header, path) ==
    [i \in 1 .. lead |-> LeadLine(i)]
        \o (IF has_header THEN <<HeaderPrefix \o <<"\n">>>> ELSE <<>>)
        \o <<path \o <<"\n">>>>

\* line.startswith(p)
startswith(line, p) == Len(line) >= Len(p) /\ SubSeq(line, 1, Len(p)) = p

\* lines 7-12: `for i, line in enumerate(f)`; at the header line,
\* output_file = line[i+1], the character of that line at index i+1
\* (IndexError past its end); i counts from 0
RECURSIVE find_output_file(_, _)
find_output_file(lines, i) ==
    IF i >= Len(lines) THEN [kind |-> "none", output_file |-> <<>>]
    ELSE LET line == lines[i + 1]
         IN  IF startswith(line, HeaderPrefix)
             THEN (IF i + 1 >= Len(line)
                   THEN [kind |-> "raise", output_file |-> <<>>]
                   ELSE [kind |-> "found", output_file |-> <<line[i + 2]>>])
             ELSE find_output_file(lines, i + 1)

\* the paths that may exist when the runner starts
TaskPaths == {declared_output(N, 0), <<"F">>, <<"i">>, <<"l">>, <<"e">>}

TaskOff ==
    [pc |-> "off", lines |-> <<>>, has_header |-> FALSE, declared |-> <<>>,
     exists |-> {}, output_file |-> <<>>, result |-> "none", invoked |-> FALSE]

TaskIdle == task = TaskOff

TaskInit ==
    task \in {[TaskOff EXCEPT !.pc = "start",
                              !.lines = config_lines(lead, h, declared_output(N, 0)),
                              !.has_header = h,
                              !.declared = declared_output(N, 0),
                              !.exists = e] :
                lead \in 0 .. MaxLead, h \in BOOLEAN, e \in SUBSET TaskPaths}

\* lines 5-28: process_config_file
process_config_file ==
    /\ task.pc = "start"
    /\ LET found == find_output_file(task.lines, 0)
       IN  task' = [task EXCEPT
                !.pc = "done",
                !.output_file = found.output_file,
                !.result = IF found.kind = "raise" THEN "IndexError"
                           ELSE IF found.output_file = <<>> THEN "warning"
                           ELSE IF found.output_file \in task.exists THEN "skipped"
                           ELSE "completed",
                !.invoked = /\ found.kind = "found"
                            /\ found.output_file # <<>>
                            /\ found.output_file \notin task.exists]
    /\ UNCHANGED <<dispVars, faults, part, recon, archVars, enum>>

(* ------------------------------ workers ------------------------------- *)
\* what the worker and the consolidation leave alone
notArch == <<started, copied, configs, jobs, marked, disp, part, recon, enum,
            task>>

WorkerInitRec == [pc |-> "queued", exit |-> -1, i |-> 1, echoed |-> <<>>]

\* a script that marks the range whatever the exit code
marks_completed_always(exit_code) == TRUE

\* `if [ $EXIT_CODE -eq 0 ]`
marks_completed(exit_code) == exit_code = 0

\* f"{output}.title": a side file the computation leaves in out/
title_of(out) == out \o <<".", "t", "i", "t", "l", "e">>

\* lines 93-97: the scheduler starts the job; the script changes directory
\* and runs sqct, which opens its output file and its side file
WorkerStart(j) ==
    /\ workers[j].pc = "queued"
    /\ workers' = [workers EXCEPT ![j].pc = "running"]
    /\ outdir' = outdir \cup {j.script.out}
    /\ titles' = titles \cup {title_of(j.script.out)}
    /\ UNCHANGED <<completed, archive, arch, faults, notArch>>

\* lines 97-109: the computation exits; code 0 means the artifact is written
WorkerExit(j) ==
    /\ workers[j].pc = "running"
    /\ \E code \in IF MayFail THEN {0, 1} ELSE {0} :
         /\ Outcome(code = 0)
         /\ outdir' = IF code = 0 THEN outdir \cup {j.script.out} ELSE outdir
         /\ workers' = [workers EXCEPT ![j] =
                [@ EXCEPT !.exit = code,
                          !.pc = IF marks_completed(code) /\ j.script.ids # <<>>
                                 THEN "marking" ELSE "done"]]
    /\ UNCHANGED <<completed, titles, archive, arch, notArch>>

\* lines 63-66, 106: one `echo "{id_str}" >> completed_ids.txt`
WorkerMark(j) ==
    /\ workers[j].pc = "marking"
    /\ LET w == workers[j]
           ids == j.script.ids
       IN  /\ completed' = append_ids_to_file(completed, <<ids[w.i]>>,
                                              Len(ids[w.i]) + 1)
           /\ workers' = [workers EXCEPT ![j] =
                  [w EXCEPT !.i = w.i + 1,
                            !.echoed = Append(w.echoed, ids[w.i]),
                            !.pc = IF w.i = Len(ids) THEN "done" ELSE "marking"]]
    /\ UNCHANGED <<outdir, titles, archive, arch, faults, notArch>>

WorkerNext ==
    \/ \E j \in DOMAIN workers : WorkerStart(j)
    \/ \E j \in DOMAIN workers : WorkerExit(j)
    \/ \E j \in DOMAIN workers : WorkerMark(j)

(* ----------------------------- Archiver ------------------------------- *)
\* number of consolidation processes that may be started
NumArchRuns == 2

ARuns == 1 .. NumArchRuns

\* a loader that takes every ID of the configuration for completed
load_completed_ids_all(file) == {IdStr(N, k) : k \in 1 .. MAX_K}

\* load_completed_ids: a missing file is an empty set
load_completed_ids(file) ==
    IF ~file.exists THEN {} ELSE SplitLines(file.data, 1, <<>>)

\* the orders in which a glob may list the files of a set
Orders(S) ==
    {q \in [1 .. Cardinality(S) -> S] : \A i, k \in 1 .. Cardinality(S) :
                                            q[i] = q[k] => i = k}

\* a tar member written at the handle's position `pos` of the file (a handle
\* whose file was truncated under it writes after a hole)
Hole == <<>>
RECURSIVE PadTo(_, _)
PadTo(entries, len) == IF Len(entries) >= len THEN entries
                       ELSE PadTo(Append(entries, Hole), len)
WriteAt(entries, pos, name) ==
    IF pos <= Len(entries) THEN [entries EXCEPT ![pos] = name]
    ELSE Append(PadTo(entries, pos - 1), name)

\* the members a reader of the archive finds: those before the first hole
RECURSIVE MembersFrom(_, _)
MembersFrom(entries, i) ==
    IF i > Len(entries) \/ entries[i] = Hole THEN {}
    ELSE {entries[i]} \cup MembersFrom(entries, i + 1)
Members(file) == IF file.exists THEN MembersFrom(file.data, 1) ELSE {}

\* the same members in the order of the file, a name as often as it was added
RECURSIVE MemberSeqFrom(_, _)
MemberSeqFrom(entries, i) ==
    IF i > Len(entries) \/ entries[i] = Hole THEN <<>>
    ELSE <<entries[i]>> \o MemberSeqFrom(entries, i + 1)
MemberSeq(file) == IF file.exists THEN MemberSeqFrom(file.data, 1) ELSE <<>>

\* history kept with a process: `after` are the runs that had finished when it
\* started, `quiet` tells that every job had ended by then, `open_failed` that
\* its tarfile.open failed, `titles_removed` the side files it removed,
\* `ready_at_start` the artifacts in out/ whose job had ended with exit code 0
\* when it started
ArchInitRec ==
    [pc |-> "idle", completed_ids_set |-> {}, files_to_archive |-> <<>>,
     files_to_remove_post_archive |-> <<>>, tar_mode |-> "-", offset |-> 0,
     i |-> 1, added |-> {}, closed_ok |-> FALSE, deleted |-> {},
     write_failed |-> FALSE, error_reported |-> FALSE,
     after |-> {}, quiet |-> FALSE, open_failed |-> FALSE, titles_removed |-> {},
     ready_at_start |-> {}, failed_removal_count |-> 0]

\* the process has ended: its variables are gone, what it did is kept
ended(rec, how) ==
    [ArchInitRec EXCEPT !.pc = how, !.added = rec.added, !.closed_ok = rec.closed_ok,
                        !.deleted = rec.deleted, !.write_failed = rec.write_failed,
                        !.error_reported = rec.error_reported,
                        !.after = rec.after, !.quiet = rec.quiet,
                        !.open_failed = rec.open_failed,
                        !.titles_removed = rec.titles_removed,
                        !.ready_at_start = rec.ready_at_start,
                        !.failed_removal_count = rec.failed_removal_count]

\* lines 59-61: load the completed IDs (exit 1 on a read error)
ArchLoad(a) ==
    /\ arch[a].pc = "idle"
    /\ \E readOk \in IF completed.exists THEN OkOrFail ELSE {TRUE} :
         /\ Outcome(readOk)
         /\ arch' = [arch EXCEPT ![a] =
                IF readOk
                THEN [@ EXCEPT !.pc = "scan",
                               !.completed_ids_set = load_completed_ids(completed),
                               !.after = {b \in ARuns : arch[b].pc = "done"},
                               !.quiet = \A j \in DOMAIN workers :
                                             workers[j].pc = "done",
                               !.ready_at_start =
                                   {j.script.out : j \in
                                       {x \in DOMAIN workers :
                                           /\ workers[x].pc = "done"
                                           /\ workers[x].exit = 0}} \cap outdir]
                ELSE ended(@, "exit1")]
    /\ UNCHANGED <<completed, workers, outdir, titles, archive, notArch>>

\* lines 63-105, 109-113, 141-143: the glob and the classification
ArchScan(a) ==
    /\ arch[a].pc = "scan"
    /\ LET ready == {f \in outdir :
                      classify(f, arch[a].completed_ids_set).decision = "archive"}
       IN  \E q \in Orders(ready) :
             arch' = [arch EXCEPT ![a] =
                        [@ EXCEPT !.files_to_archive = q,
                                  !.pc = IF q # <<>> THEN "mode" ELSE "titles"]]
    /\ UNCHANGED <<completed, workers, outdir, titles, archive, faults, notArch>>

\* lines 115-120: tar_mode = 'a' if ARCHIVE_PATH.exists() else 'w'
ArchMode(a) ==
    /\ arch[a].pc = "mode"
    /\ arch' = [arch EXCEPT ![a] =
                  [@ EXCEPT !.tar_mode = IF archive.exists THEN "a" ELSE "w",
                            !.pc = "open"]]
    /\ UNCHANGED <<completed, workers, outdir, titles, archive, faults, notArch>>

\* line 146: `if files_to_remove_post_archive:` guards the removal
after_archive(rec) ==
    [rec EXCEPT !.i = 1,
                !.pc = IF rec.files_to_remove_post_archive # <<>>
                       THEN "remove" ELSE "titles"]

\* an except clause that leaves the batch marked for removal
on_archive_error_marks(rec) ==
    after_archive([rec EXCEPT !.files_to_remove_post_archive = rec.files_to_archive,
                              !.error_reported = TRUE])

\* lines 136-140: the except clause, reached from the open, an add or the close
on_archive_error(rec) ==
    after_archive([rec EXCEPT !.files_to_remove_post_archive = <<>>,
                              !.error_reported = TRUE])

\* line 124: tarfile.open; 'w' creates or truncates, 'a' positions the handle
\* after the last member (and creates a missing file)
ArchOpen(a) ==
    /\ arch[a].pc = "open"
    /\ \E openOk \in OkOrFail :
         /\ Outcome(openOk)
         /\ IF openOk
            THEN /\ archive' = IF arch[a].tar_mode = "w" \/ ~archive.exists
                               THEN [exists |-> TRUE, data |-> <<>>]
                               ELSE archive
                 /\ arch' = [arch EXCEPT ![a] =
                        [@ EXCEPT !.pc = "add", !.i = 1,
                                  !.offset = Len(MemberSeq(archive'))]]
            ELSE /\ archive' = archive
                 /\ arch' = [arch EXCEPT ![a] =
                        on_archive_error([@ EXCEPT !.open_failed = TRUE])]
    /\ UNCHANGED <<completed, workers, outdir, titles, notArch>>

\* a failed tar.add that is skipped: the loop goes on with the next file
add_failed_continue(rec) ==
    [rec EXCEPT !.write_failed = TRUE, !.error_reported = TRUE, !.i = rec.i + 1,
                !.pc = IF rec.i = Len(rec.files_to_archive) THEN "close" ELSE "add"]

\* a failed tar.add leaves the with block: nothing more is added
add_failed(rec) == on_archive_error([rec EXCEPT !.write_failed = TRUE])

\* lines 125-129: tar.add of the next file (OSError when the file is gone)
ArchAdd(a) ==
    /\ arch[a].pc = "add"
    /\ LET rec == arch[a]
           f == rec.files_to_archive[rec.i]
       IN  \E addOk \in IF f \in outdir THEN OkOrFail ELSE {FALSE} :
             /\ faults' = IF addOk \/ f \notin outdir THEN faults ELSE faults + 1
             /\ IF addOk
                THEN /\ archive' = [archive EXCEPT
                                      !.data = WriteAt(@, rec.offset + 1, f)]
                     /\ arch' = [arch EXCEPT ![a] =
                            [rec EXCEPT !.offset = rec.offset + 1,
                                        !.added = rec.added \cup {f},
                                        !.i = rec.i + 1,
                                        !.pc = IF rec.i = Len(rec.files_to_archive)
                                               THEN "close" ELSE "add"]]
                ELSE /\ archive' = archive
                     /\ arch' = [arch EXCEPT ![a] = add_failed(rec)]
    /\ UNCHANGED <<completed, workers, outdir, titles, notArch>>

\* lines 124, 131-134: leaving the with block closes the archive; then the
\* archived files are marked for removal
ArchClose(a) ==
    /\ arch[a].pc = "close"
    /\ \E closeOk \in OkOrFail :
         /\ Outcome(closeOk)
         /\ arch' = [arch EXCEPT ![a] =
                IF closeOk
                THEN after_archive(
                       [@ EXCEPT !.closed_ok = TRUE,
                                 !.files_to_remove_post_archive =
                                     @ \o arch[a].files_to_archive])
                ELSE on_archive_error(@)]
    /\ UNCHANGED <<completed, workers, outdir, titles, archive, notArch>>

\* lines 145-163: unlink the next archived file if it still exists
ArchRemove(a) ==
    /\ arch[a].pc = "remove"
    /\ LET rec == arch[a]
           f == rec.files_to_remove_post_archive[rec.i]
           next == [rec EXCEPT !.i = rec.i + 1,
                               !.pc = IF rec.i = Len(rec.files_to_remove_post_archive)
                                      THEN "titles" ELSE "remove"]
       IN  \E unlinkOk \in IF f \in outdir THEN OkOrFail ELSE {TRUE} :
             /\ Outcome(unlinkOk)
             /\ IF f \in outdir /\ unlinkOk
                THEN /\ outdir' = outdir \ {f}
                     /\ arch' = [arch EXCEPT ![a] =
                                   [next EXCEPT !.deleted = rec.deleted \cup {f}]]
                ELSE /\ outdir' = outdir
                     /\ arch' = [arch EXCEPT ![a] =
                            [next EXCEPT !.failed_removal_count =
                                IF unlinkOk THEN @ ELSE @ + 1]]
    /\ UNCHANGED <<completed, workers, titles, archive, notArch>>

\* lines 166-186: remove the *.title files, best effort
ArchTitles(a) ==
    /\ arch[a].pc = "titles"
    /\ \E unlinkOk \in IF titles # {} THEN OkOrFail ELSE {TRUE} :
         /\ Outcome(unlinkOk)
         /\ titles' = IF unlinkOk THEN {} ELSE titles
         /\ arch' = [arch EXCEPT ![a] =
                ended([@ EXCEPT !.titles_removed = IF unlinkOk THEN titles ELSE {}],
                      "done")]
    /\ UNCHANGED <<completed, workers, outdir, archive, notArch>>

\* the process is killed
ArchKill(a) ==
    /\ arch[a].pc \in {"scan", "mode", "open", "add", "close", "remove", "titles"}
    /\ MayFail
    /\ Outcome(FALSE)
    /\ arch' = [arch EXCEPT ![a] = ended(@, "killed")]
    /\ UNCHANGED <<completed, workers, outdir, titles, archive, notArch>>

ArchNext ==
    \E a \in ARuns :
        \/ ArchLoad(a)
        \/ ArchScan(a)
        \/ ArchMode(a)
        \/ ArchOpen(a)
        \/ ArchAdd(a)
        \/ ArchClose(a)
        \/ ArchRemove(a)
        \/ ArchTitles(a)
        \/ ArchKill(a)

\* the jobs a Dispatcher run on an empty ledger submits when nothing fails
RECURSIVE PlannedScripts(_, _)
PlannedScripts(kmin, count) ==
    IF range_exhausted(kmin, MAX_K) \/ count >= MAX_JOBS THEN <<>>
    ELSE LET kmax == kmax_actual_of(kmin, job_k_range_size(NUM_K_PER_JOB), MAX_K)
         IN  <<generate_pbs_script(N, kmin, kmax,
                                   ScanRange(N, kmin, kmax, {}, <<>>).ids)>>
             \o PlannedScripts(kmin + job_k_range_size(NUM_K_PER_JOB), count + 1)

RECURSIVE StartedAfter(_)
StartedAfter(scripts) ==
    IF scripts = <<>> THEN <<>>
    ELSE IdLines(Head(scripts).ids) \o StartedAfter(Tail(scripts))

\* the state an earlier, finished Dispatcher run has left: its ranges are
\* marked started and submitted, the jobs are queued
ArchInit ==
    LET scripts == PlannedScripts(1, 0)
    IN  /\ started = [exists |-> TRUE, data |-> StartedAfter(scripts)]
        /\ completed = [exists |-> TRUE, data |-> <<>>]
        /\ copied = {"bfs-layer", "sqct"}
        /\ configs = {scripts[i].config : i \in 1 .. Len(scripts)}
        /\ jobs = {[run |-> 0, script |-> scripts[i]] : i \in 1 .. Len(scripts)}
        /\ marked = {}
        /\ disp = [r \in Runs |-> DispInitRec]
        /\ faults = 0
        /\ workers = [j \in jobs |-> WorkerInitRec]
        /\ outdir = {}
        /\ titles = {}
        /\ archive = NoFile
        /\ arch = [a \in ARuns |-> ArchInitRec]

vars == <<dispVars, faults, part, recon, archVars, enum, task>>

ArchIdle ==
    /\ workers = <<>>
    /\ outdir = {}
    /\ titles = {}
    /\ archive = NoFile
    /\ arch = <<>>

Init == DispInit /\ PartIdle /\ ReconIdle /\ ArchIdle /\ EnumIdle /\ TaskIdle

Spec == Init /\ [][DispNext]_vars

\* the range loop alone, over the drawn configurations
InitPart == DispInit /\ PartInit /\ ReconIdle /\ ArchIdle /\ EnumIdle /\ TaskIdle

\* the reconciler's check alone, over the drawn names and Completed sets
InitRecon == DispInit /\ PartIdle /\ ReconInit /\ ArchIdle /\ EnumIdle /\ TaskIdle

SpecRecon == InitRecon /\ [][ReconNext]_vars

\* the workers of the submitted jobs and the consolidation runs
InitArch == ArchInit /\ PartIdle /\ ReconIdle /\ EnumIdle /\ TaskIdle

NextArch == WorkerNext \/ ArchNext

SpecArch == InitArch /\ [][NextArch]_vars

SpecPart == InitPart /\ [][PartitionStep]_vars

\* the enumeration alone, over the drawn ranges
InitEnum == DispInit /\ PartIdle /\ ReconIdle /\ ArchIdle /\ EnumInit /\ TaskIdle

SpecEnum == InitEnum /\ [][EnumNext]_vars

\* the local batch runner alone, over the drawn config files and directories
InitTask == DispInit /\ PartIdle /\ ReconIdle /\ ArchIdle /\ EnumIdle /\ TaskInit

SpecTask == InitTask /\ [][process_config_file]_vars


(* ------------------------- claims: Dispatcher ------------------------- *)
\* the odd k of [kmin, kmax), as a set
RangeKs(kmin, kmax) == {k \in kmin .. kmax - 1 : (k - kmin) % K_STEP = 0}
RangeIdSet(n, kmin, kmax) == {IdStr(n, k) : k \in RangeKs(kmin, kmax)}

\* the ranges [kmin, kmax) of the configured partition, as a set
PartitionRanges ==
    {<<kmin, Min(kmin + NUM_K_PER_JOB * K_STEP, MAX_K)>> :
        kmin \in {k \in 1 .. MAX_K - 1 : (k - 1) % (NUM_K_PER_JOB * K_STEP) = 0}}

\* `id` is a line of the text `data`
IsLineOf(id, data) ==
    \E i \in 1 .. Len(data) :
        /\ i + Len(id) - 1 <= Len(data)
        /\ SubSeq(data, i, i + Len(id) - 1) = id
        /\ (i = 1 \/ data[i - 1] = "\n")
        /\ (i + Len(id) - 1 = Len(data) \/ data[i + Len(id)] = "\n")

SeqRange(q) == {q[i] : i \in 1 .. Len(q)}

\* C1: whenever a run is about to hand a range to qsub, every ID of the range
\* is a line of started_ids.txt.
C1_SubmittedRangeIsInStarted ==
    \A r \in Runs :
        disp[r].pc = "qsub" =>
            \A id \in SeqRange(disp[r].ids_in_range) : IsLineOf(id, started.data)

\* C2: no ID is submitted to the scheduler by two different runs.
C2_NoIdSubmittedByTwoRuns ==
    \A j1 \in jobs, j2 \in jobs :
        j1.run # j2.run =>
            SeqRange(j1.script.ids) \cap SeqRange(j2.script.ids) = {}

\* run r has loaded the ledger
HasLoaded(r) == disp[r].pc \in {"loop", "mark", "config", "qsub", "done", "killed"}

\* the range is fully in the Started ledger as run r found it
FullyStartedAtStart(r, rg) ==
    /\ HasLoaded(r)
    /\ \A id \in RangeIdSet(N, rg[1], rg[2]) : IsLineOf(id, disp[r].ledger_at_start)

\* C3: a run neither appends nor submits a range whose IDs were all in the
\* Started ledger when the run loaded it.
C3_FullyStartedRangeIsSkipped ==
    \A r \in Runs : \A rg \in PartitionRanges :
        FullyStartedAtStart(r, rg) =>
            /\ [run |-> r, kmin |-> rg[1], kmax |-> rg[2]] \notin marked
            /\ ~ \E j \in jobs : j.run = r /\ j.script.kmin = rg[1]

\* a run that found a fully started range has gone through the whole loop
C3_Witness ==
    \E r \in Runs : \E rg \in PartitionRanges :
        /\ FullyStartedAtStart(r, rg)
        /\ disp[r].pc = "done"
        /\ disp[r].skipped_ranges_count > 0

\* the ranges run r has marked, or begun to mark, as started
MarkedBy(r) == {m \in marked : m.run = r}

\* C12: a run started after another run was killed submits no range that the
\* killed run had submitted or had begun to append to started_ids.txt.
C12_RerunSkipsKilledRunsRanges ==
    \A r1 \in Runs, r2 \in Runs :
        r1 \in disp[r2].earlier.killed =>
            \A j \in jobs :
                j.run = r2 =>
                    /\ ~ \E j1 \in jobs : j1.run = r1 /\ j1.script.kmin = j.script.kmin
                    /\ [run |-> r1, kmin |-> j.script.kmin, kmax |-> j.script.kmax]
                           \notin marked

\* the IDs of the configuration
AllIds == {IdStr(N, k) : k \in RangeKs(1, MAX_K)}

\* C13: an ID that a load of started_ids.txt or of completed_ids.txt returns
\* is returned by every later load.
C13_LedgerSetsOnlyGrow ==
    [][\A id \in AllIds :
         /\ id \in load_tracked_ids(started) => id \in load_tracked_ids(started')
         /\ id \in load_tracked_ids(completed) => id \in load_tracked_ids(completed')]_vars

\* C14: when append_ids_to_file has returned, a load of started_ids.txt returns
\* every ID of the range and every ID a load returned before the append.
C14_AppendThenLoad ==
    [][\A r \in Runs :
         disp[r].pc = "mark" /\ disp'[r].pc = "config" =>
            load_tracked_ids(started) \cup SeqRange(disp[r].ids_in_range)
                \subseteq load_tracked_ids(started')]_vars

\* the ranges (by kmin) that run r has piped to qsub, accepted or not
Attempted(r) == {j.script.kmin : j \in {x \in jobs : x.run = r}}
                    \cup {rg[1] : rg \in disp[r].failed}

\* C15: a run attempts the submission of at most MAX_JOBS ranges.
C15_AttemptsWithinCap ==
    \A r \in Runs : Cardinality(Attempted(r)) <= MAX_JOBS

\* C16: the IDs of a range whose submission failed are lines of
\* started_ids.txt and not of completed_ids.txt, and a run started after the
\* failure submits no job for the range.
C16_FailedRangeIsInert ==
    /\ \A rg \in FailedRanges : \A id \in RangeIdSet(N, rg[1], rg[2]) :
           IsLineOf(id, started.data) /\ ~IsLineOf(id, completed.data)
    /\ \A r \in Runs : \A rg \in disp[r].earlier.failed :
           ~ \E j \in jobs : j.run = r /\ j.script.kmin = rg[1]

\* C18: the loop of a run ends before the partition is exhausted and before
\* the cap only on a qsub that is not found; each error step submits nothing,
\* a failed config write or a rejected job moves on to the next range, and a
\* run that has ended marks and submits nothing more.
C18_OnlyMissingQsubStopsLoop ==
    /\ [](\A r \in Runs :
            LET d == disp[r]
            IN  /\ (d.pc = "done" /\ ~range_exhausted(d.kmin, MAX_K)
                      /\ d.submitted_count < MAX_JOBS) => d.last_error = "notfound"
                /\ d.last_error = "notfound" => d.pc = "done")
    /\ [][\A r \in Runs :
            /\ disp'[r].error_count = disp[r].error_count + 1 =>
                 /\ jobs' = jobs
                 /\ IF disp'[r].last_error = "notfound"
                    THEN disp'[r].pc = "done"
                    ELSE /\ disp'[r].pc = "loop"
                         /\ disp'[r].kmin =
                                disp[r].kmin + job_k_range_size(NUM_K_PER_JOB)
            /\ disp[r].pc = "done" =>
                 /\ disp'[r] = disp[r]
                 /\ {m \in marked' : m.run = r} = MarkedBy(r)
                 /\ {j \in jobs' : j.run = r} = {j \in jobs : j.run = r}]_vars

\* a run went on after a failed config write or a rejected job, marked a
\* further range, and was stopped there by a missing qsub
C18_Witness ==
    \E r \in Runs :
        /\ disp[r].pc = "done" /\ disp[r].last_error = "notfound"
        /\ disp[r].error_count = 2
        /\ Cardinality(MarkedBy(r)) = 2
        /\ ~range_exhausted(disp[r].kmin, MAX_K)

\* C19: a run that exits on a configuration error has, in that step, neither
\* created a tracking file nor copied a file.
C19_ConfigErrorMutatesNothing ==
    [][\A r \in Runs :
         disp[r].pc = "idle" /\ disp'[r].pc = "exit1" =>
            /\ started' = started /\ completed' = completed
            /\ copied' = copied
            /\ marked' = marked /\ jobs' = jobs]_vars

\* C22: for every submitted job, the artifact name of its config parses in
\* the reconciler to the job's (n, kmin, kmax); the IDs the reconciler checks
\* for that name are the IDs the job's script echoes, and these are lines of
\* started_ids.txt.
C22_NamesAndIdsAgree ==
    \A j \in jobs :
        LET sc == j.script
            p == parse_range_filename(sc.config.out)
        IN  /\ p = [ok |-> TRUE, n |-> N, kmin |-> sc.kmin, kmax |-> sc.kmax]
            /\ sc.out = sc.config.out
            /\ check_range_completion(p.n, p.kmin, p.kmax, {}).missing = sc.ids
            /\ SeqRange(sc.ids) \subseteq load_tracked_ids(started)


(* ------------------------- claims: partition -------------------------- *)
\* C10: the ranges the loop iterates cover [1, N/2) exactly once: the first
\* starts at 1, each range is non-empty and at most W wide, each starts where
\* the one before ends, and the last ends at N/2.
C10_PartitionCoversOnce ==
    part.done /\ part.M > 0 =>
        LET rs == part.ranges
            half == Pow2(part.M) \div 2
            W == K_STEP * part.numK
        IN  /\ \A k \in 1 .. half - 1 :
                 Cardinality({i \in 1 .. Len(rs) : rs[i][1] <= k /\ k < rs[i][2]}) = 1
            /\ \A i \in 1 .. Len(rs) :
                 /\ rs[i][1] < rs[i][2]
                 /\ rs[i][2] - rs[i][1] <= W
                 /\ 1 <= rs[i][1] /\ rs[i][2] <= half
            /\ \A i \in 1 .. Len(rs) - 1 : rs[i + 1][1] = rs[i][2]
            /\ rs # <<>> => rs[1][1] = 1 /\ rs[Len(rs)][2] = half
            /\ (half > 1) => rs # <<>>

\* N = 16, W = 4: the loop has produced [1,5) and the clipped [5,8)
C10_Witness ==
    /\ part.done /\ part.M = 4 /\ part.numK = 2
    /\ part.ranges = <<<<1, 5>>, <<5, 8>>>>


(* ------------------------ claims: enumeration ------------------------- *)
\* the least c with c * d >= a, for a >= 0 and d > 0
Ceil(a, d) == CHOOSE c \in 0 .. a : c * d >= a /\ (c = 0 \/ (c - 1) * d < a)

\* C11: for kmin < kmax the Dispatcher lists ceil((kmax - kmin) / K_STEP) IDs,
\* the i-th of them N_k with k = kmin + (i-1) * K_STEP and kmin <= k < kmax;
\* the reconciler checks the same IDs, and the count it reports as expected
\* is the number of IDs it checks.
C11_EnumerationAndCount ==
    (enum.pc = "done" /\ enum.kmin < enum.kmax) =>
        /\ Len(enum.ids_in_range) = Ceil(enum.kmax - enum.kmin, K_STEP)
        /\ enum.ids_to_check_count = Len(enum.ids_in_range)
        /\ \A i \in 1 .. Len(enum.ids_in_range) :
              LET k == enum.kmin + (i - 1) * K_STEP
              IN  /\ enum.ids_in_range[i] = IdStr(N, k)
                  /\ enum.kmin <= k /\ k < enum.kmax
        /\ enum.checked = enum.ids_in_range
        /\ enum.all_complete
        /\ enum.num_ids_expected = Len(enum.checked)

\* the range [1, 8) of odd width: 1, 3, 5 and 7 are listed and checked
C11_Witness ==
    /\ enum.pc = "done" /\ enum.kmin = 1 /\ enum.kmax = 8
    /\ Len(enum.ids_in_range) = 4 /\ enum.num_ids_expected = 4


(* ------------------------- claims: reconciler ------------------------- *)
\* C8: an artifact whose name parses to (n, kmin, kmax), kmin < kmax, is
\* archived iff every ID n_k, k = kmin, kmin+2, ... < kmax, is in Completed;
\* otherwise it is incomplete and the missing list is exactly the absent IDs,
\* each once; after removing one ID of a complete range the missing list is
\* that ID alone.
C8_ReconcilerClassifies ==
    LET p == parse_range_filename(recon.name)
        want == RangeIdSet(p.n, p.kmin, p.kmax)
        res == recon.result
    IN  recon.pc = "checked" /\ p.ok /\ p.kmin < p.kmax =>
          /\ res.decision = "archive" <=> want \subseteq recon.completed_set
          /\ res.decision # "archive" =>
               /\ res.decision = "incomplete"
               /\ SeqRange(res.missing) = want \ recon.completed_set
               /\ Len(res.missing) = Cardinality(want \ recon.completed_set)
          /\ (recon.removed # <<>> /\ recon.before.decision = "archive") =>
               IF recon.removed[1] \in want
               THEN res.decision = "incomplete" /\ res.missing = recon.removed
               ELSE res.decision = "archive"

\* uni_1024_1_9.txt was complete; 1024_5 was removed and is reported missing
C8_Witness ==
    /\ recon.pc = "checked"
    /\ recon.name = output_filename(1024, 1, 9)
    /\ recon.before.decision = "archive"
    /\ recon.removed = <<IdStr(1024, 5)>>
    /\ recon.result = [decision |-> "incomplete", missing |-> <<IdStr(1024, 5)>>]


(* --------------------- claims: workers and archiver -------------------- *)
\* C4: a consolidation run deletes a source artifact only if it wrote an entry
\* with that file name into the archive and closed the archive successfully.
C4_DeletedOnlyAfterArchived ==
    \A a \in DOMAIN arch : \A f \in arch[a].deleted :
        f \in arch[a].added /\ arch[a].closed_ok

\* a run has deleted an artifact in a behaviour with a failure or a crash
C4_Witness ==
    \E a \in DOMAIN arch : arch[a].deleted # {} /\ faults > 0

\* C5: a run in which a tar.add failed has deleted no source artifact and has
\* reported the failure.
C5_FailedWriteDeletesNothing ==
    \A a \in DOMAIN arch :
        arch[a].write_failed => arch[a].deleted = {} /\ arch[a].error_reported

\* a run wrote one artifact, failed on the next, and has finished
C5_Witness ==
    \E a \in DOMAIN arch :
        /\ arch[a].write_failed /\ arch[a].added # {} /\ arch[a].pc = "done"
        /\ arch[a].added \subseteq outdir

\* C6: a member of the archive stays a member of the archive.
C6_ArchiveMembersStay == [][Members(archive) \subseteq Members(archive')]_vars

\* C7: a worker echoes IDs into completed_ids.txt only after exit code 0, and
\* then all the IDs of its range; nothing else reaches the Completed ledger
\* and the Started ledger is as the Dispatcher left it.
C7_WorkerMarksOnSuccessOnly ==
    /\ \A j \in DOMAIN workers :
         LET w == workers[j]
             want == RangeIdSet(j.script.config.n, j.script.kmin, j.script.kmax)
         IN  /\ w.echoed # <<>> => w.exit = 0
             /\ (w.pc = "done" /\ w.exit = 0) =>
                   /\ SeqRange(w.echoed) = want
                   /\ \A id \in want : IsLineOf(id, completed.data)
             /\ (w.pc = "done" /\ w.exit # 0) =>
                   \A id \in want : ~IsLineOf(id, completed.data)
    /\ workers # <<>> => started.data = StartedAfter(PlannedScripts(1, 0))

\* one worker has failed, another has succeeded and marked its range
C7_Witness ==
    \E j1 \in DOMAIN workers, j2 \in DOMAIN workers :
        /\ workers[j1].pc = "done" /\ workers[j1].exit = 1
        /\ workers[j2].pc = "done" /\ workers[j2].exit = 0

C17_SecondRunDoesNothing ==
    \A a1 \in DOMAIN arch, a2 \in DOMAIN arch :
        (a1 \in arch[a2].after /\ arch[a1].quiet /\ ~arch[a1].error_reported) =>
            /\ arch[a2].added = {} /\ arch[a2].deleted = {}
            /\ Len(MemberSeq(archive)) = Cardinality(Members(archive))

\* C20: a run whose tarfile.open failed deletes no source artifact and removes
\* no side file.
C20_OpenFailureAbortsRun ==
    \A a \in DOMAIN arch :
        arch[a].open_failed => arch[a].deleted = {} /\ arch[a].titles_removed = {}

\* C21: a step of a consolidation run leaves started_ids.txt and
\* completed_ids.txt as they are, removes from out/ only artifacts all of
\* whose IDs are in completed_ids.txt, and otherwise only *.title files.
C21_ConsolidationLeavesLedgers ==
    [][arch' # arch =>
         /\ started' = started /\ completed' = completed
         /\ \A f \in outdir \ outdir' :
               classify(f, load_tracked_ids(completed)).decision = "archive"
         /\ \A a \in DOMAIN arch :
               \A f \in arch'[a].deleted \ arch[a].deleted : f \in outdir \ outdir'
         /\ \A t \in titles \ titles' :
               \E j \in DOMAIN workers : t = title_of(j.script.out)]_vars

\* a run has deleted an archived artifact and removed side files while the
\* artifact of an unfinished job is still in out/
C21_Witness ==
    \E a \in DOMAIN arch :
        /\ arch[a].pc = "done" /\ arch[a].deleted # {} /\ arch[a].titles_removed # {}
        /\ \E j \in DOMAIN workers : workers[j].pc = "running" /\ j.script.out \in outdir

\* C23: when a consolidation run ends without an archive error and without a
\* failed removal, every artifact that was in out/ with its job ended by exit
\* code 0 when the run started is a member of the archive and no longer in
\* out/.
C23_CompletedWorkIsArchived ==
    [][\A a \in DOMAIN arch :
         (/\ arch[a].pc # "done" /\ arch'[a].pc = "done"
          /\ ~arch'[a].error_reported
          /\ arch'[a].failed_removal_count = 0) =>
            \A f \in arch'[a].ready_at_start :
                f \in Members(archive') /\ f \notin outdir']_vars

\* C24: process_config_file does not invoke ./sqct for a config whose
\* declared output file, the path on the line after the header, exists.
C24_ExistingOutputIsSkipped ==
    (task.pc = "done" /\ task.has_header /\ task.declared \in task.exists) =>
        ~task.invoked /\ task.result = "skipped"

=============================================================================
